---- MODULE Spec2Model ----
(***************************************************************************)
(* Quiz session store and scoring engine of the SkillScape agent service   *)
(* (app/tools/score_quiz.py, app/tools/generate_quiz.py,                   *)
(* app/tools/organize_content.py, app/tools/summarize_content.py,          *)
(* app/agents/*.py, app/main.py).                                          *)
(*                                                                         *)
(* Python dicts are functions with a finite set of string keys; a JSON     *)
(* text is a record [kind, value] (kind "object", "array" or "malformed"); *)
(* a float c/t is the reduced fraction [num, den].  The service runs on    *)
(* one asyncio event loop: the synchronous tool functions run to           *)
(* completion once entered, and requests interleave only where the agent   *)
(* runner awaits the external model.                                       *)
(*                                                                         *)
(* Spec: the quiz endpoints with overlapping requests.  SpecEndpoints: the *)
(* three endpoints, one request at a time.  SpecScore and SpecOrganize:    *)
(* score_quiz and organize_content applied to bounded inputs.              *)
(***************************************************************************)
EXTENDS Integers, Sequences, FiniteSets, TLC

VARIABLES quiz_store, inflight, call, http, configured, first, writes

vars == <<quiz_store, inflight, call, http, configured, first, writes>>

\* ------------------------------------------------------------------ bounds

\* Requests that may be in flight (awaiting the agent runner) at once.
MaxInFlight == 2
\* Questions in a quiz of the scoring-arithmetic specification SpecScore.
MaxQuestions == 10

\* ------------------------------------------------------------ Python values

\* Python's None (a JSON null, or the result of dict.get on a missing key).
None == "None"

\* d.get(k, default)
Get(d, k, default) == IF k \in DOMAIN d THEN d[k] ELSE default

\* d[k] = v
With(d, k, v) == [x \in DOMAIN d \cup {k} |-> IF x = k THEN v ELSE d[x]]

\* d without key k (d.pop(k), or a comprehension that skips k)
Without(d, k) == [x \in DOMAIN d \ {k} |-> d[x]]

\* json.dumps of a dict / json.loads of a text: a well-formed text carries the
\* value it encodes; json.loads raises JSONDecodeError on a malformed text.
JsonDumps(v) == [kind |-> "object", value |-> v]

\* No text: the call raised, or the agent produced no final text.
NoReturn == [kind |-> "none"]

\* A text json.loads rejects.
Malformed == [kind |-> "malformed"]

\* A well-formed text whose value is not a dict.
JsonArray == [kind |-> "array"]

JsonDecodes(text) == text.kind \in {"object", "array"}

JsonLoads(text) == text.value

RECURSIVE Gcd(_, _)
Gcd(a, b) == IF b = 0 THEN a ELSE Gcd(b, a % b)

\* The float c / t (t > 0), as the fraction it rounds.
Div(c, t) == [num |-> c \div Gcd(c, t), den |-> t \div Gcd(c, t)]

\* The int 0 of "... if total > 0 else 0" (numerically equal to 0.0).
Zero == [num |-> 0, den |-> 1]

\* Mutant of GeThreshold: the boundary is exclusive (score > 0.7).
GtThreshold(score) == 10 * score.num > 7 * score.den

\* score >= 0.7: c/t and the literal 0.7 are both correctly rounded doubles, and
\* for the small totals of a quiz c/t never falls within one ulp of 7/10 without
\* being equal to it, so the comparison of doubles is the comparison of fractions.
GeThreshold(score) == 10 * score.num >= 7 * score.den

\* ---------------------------------------------------------------- score_quiz

\* The answers argument after line 27: a str is decoded, a dict is taken as is.
ParseAnswers(answers) == JsonLoads(answers)

\* Mutant of TopicIndex: only the entry added last is compared.
TopicIndexLastOnly(topics_scores, topic) ==
    IF Len(topics_scores) > 0 /\ topics_scores[Len(topics_scores)].topic = topic
    THEN Len(topics_scores) ELSE 0

\* Position of topic in the insertion-ordered dict topics_scores, 0 if absent.
TopicIndex(topics_scores, topic) ==
    LET hits == {i \in 1..Len(topics_scores) : topics_scores[i].topic = topic}
    IN IF hits = {} THEN 0 ELSE CHOOSE i \in hits : TRUE

\* user_answers.get(q["id"]) == q.get("correct")
IsCorrect(q, user_answers) ==
    Get(user_answers, q["id"], None) = Get(q, "correct", None)

\* One iteration of the loop over quiz["questions"] (lines 30-36).
TallyQuestion(topics_scores, q, user_answers) ==
    LET topic == Get(q, "topic", "General")
        i == TopicIndex(topics_scores, topic)
        inc == IF IsCorrect(q, user_answers) THEN 1 ELSE 0
    IN IF i = 0
       THEN Append(topics_scores, [topic |-> topic, correct |-> inc, total |-> 1])
       ELSE [topics_scores EXCEPT ![i] =
                [topic |-> topic, correct |-> @.correct + inc, total |-> @.total + 1]]

RECURSIVE Tally(_, _, _)
Tally(questions, n, user_answers) ==
    IF n = 0 THEN <<>>
    ELSE TallyQuestion(Tally(questions, n - 1, user_answers), questions[n], user_answers)

\* The loop raises when the decoded answers are no dict (AttributeError on
\* .get) or a question has no "id" (KeyError), at the first question it meets.
TallyRaises(questions, answers) ==
    /\ Len(questions) > 0
    /\ \/ answers.kind # "object"
       \/ \E i \in 1..Len(questions) : "id" \notin DOMAIN questions[i]

\* Lines 42-51: one TopicAssessment per entry of topics_scores.
TopicAssessmentOf(scores) ==
    LET score == IF scores.total > 0 THEN Div(scores.correct, scores.total) ELSE Zero
    IN [topic |-> scores.topic,
        score |-> score,
        status |-> IF GeThreshold(score) THEN "proficient" ELSE "needs_review",
        questions_correct |-> scores.correct,
        questions_total |-> scores.total]

TopicsAssessed(topics_scores) ==
    [i \in 1..Len(topics_scores) |-> TopicAssessmentOf(topics_scores[i])]

\* Mutant of InSkip: the second threshold test is exclusive.
InSkipStrict(t) == GtThreshold(t.score)

\* Lines 52-55: the topics appended to skip_areas / focus_areas, in order.
InSkip(t) == GeThreshold(t.score)

SkipAreas(topics_assessed) ==
    LET F[i \in 0..Len(topics_assessed)] ==
            IF i = 0 THEN <<>>
            ELSE IF InSkip(topics_assessed[i])
                 THEN Append(F[i - 1], topics_assessed[i].topic) ELSE F[i - 1]
    IN F[Len(topics_assessed)]

FocusAreas(topics_assessed) ==
    LET F[i \in 0..Len(topics_assessed)] ==
            IF i = 0 THEN <<>>
            ELSE IF InSkip(topics_assessed[i])
                 THEN F[i - 1] ELSE Append(F[i - 1], topics_assessed[i].topic)
    IN F[Len(topics_assessed)]

RECURSIVE SumField(_, _, _)
SumField(seq, n, field) ==
    IF n = 0 THEN 0 ELSE SumField(seq, n - 1, field) + seq[n][field]

\* Lines 57-59.
Overall(topics_assessed) ==
    LET total_correct == SumField(topics_assessed, Len(topics_assessed), "questions_correct")
        total_questions == SumField(topics_assessed, Len(topics_assessed), "questions_total")
    IN IF total_questions > 0 THEN Div(total_correct, total_questions) ELSE Zero

\* Lines 29-59 and the dict of lines 64-71 / 75-82.
Assessment(session_id, quiz, user_answers) ==
    LET questions == Get(quiz, "questions", <<>>)
        topics_assessed == TopicsAssessed(Tally(questions, Len(questions), user_answers))
    IN [session_id |-> session_id,
        title |-> Get(quiz, "title", "Quiz"),
        topics_assessed |-> topics_assessed,
        overall_knowledge |-> Overall(topics_assessed),
        focus_areas |-> FocusAreas(topics_assessed),
        skip_areas |-> SkipAreas(topics_assessed)]

\* Mutant of IsCached: the flag is read under another key than it is written.
IsCachedWrongKey(quiz) == Get(quiz, "scored", FALSE) /\ "_score_result" \in DOMAIN quiz

\* Line 23: quiz.get("_scored") and quiz.get("_score_result").
IsCached(quiz) == Get(quiz, "_scored", FALSE) /\ "_score_result" \in DOMAIN quiz

\* Mutant of MarkScored: the result is cached but the flag is not set.
MarkScoredNoFlag(quiz, result) == With(quiz, "_score_result", result)

\* Lines 63-71: the two assignments that cache the result.
MarkScored(quiz, result) == With(With(quiz, "_scored", TRUE), "_score_result", result)

\* Line 18: the value returned for an unknown session.
NotFound(store, session_id) ==
    [error |-> <<"Quiz session not found", session_id>>,
     available_sessions |-> DOMAIN store]

\* Mutant of UnknownSession: the lookup creates the missing entry (a
\* defaultdict, or setdefault in place of the membership test).
UnknownSessionCreates(store, session_id) ==
    [raised |-> "none", ret |-> JsonDumps(NotFound(store, session_id)),
     store |-> With(store, session_id, [title |-> "Quiz"]), computed |-> FALSE]

\* Lines 16-18: an unknown session id returns the error value.
UnknownSession(store, session_id) ==
    [raised |-> "none", ret |-> JsonDumps(NotFound(store, session_id)),
     store |-> store, computed |-> FALSE]

\* Mutant of CachedResult: a scored session is evicted once its cached result
\* has been served.
CachedResultEvicts(store, quiz) ==
    [raised |-> "none", ret |-> JsonDumps(quiz["_score_result"]),
     store |-> [s \in {x \in DOMAIN store : store[x] # quiz} |-> store[s]],
     computed |-> FALSE]

\* Lines 23-25: a scored session returns the cached result.
CachedResult(store, quiz) ==
    [raised |-> "none", ret |-> JsonDumps(quiz["_score_result"]),
     store |-> store, computed |-> FALSE]

\* Mutant of FailedScore: the flag of line 63 is set before the answers are
\* decoded, so that an exception leaves it set.
FailedScoreFlagged(store, session_id, exc) ==
    [raised |-> exc, ret |-> NoReturn,
     store |-> [store EXCEPT ![session_id] = With(@, "_scored", TRUE)], computed |-> FALSE]

\* Lines 27-36: an exception raised while decoding the answers or tallying
\* leaves the function before line 63 is reached.
FailedScore(store, session_id, exc) ==
    [raised |-> exc, ret |-> NoReturn, store |-> store, computed |-> FALSE]

\* Mutant of ComputedResult: the result replaces the stored quiz instead of
\* being cached in it.
ComputedResultReplacesQuiz(store, session_id, quiz, user_answers) ==
    LET result == Assessment(session_id, quiz, user_answers) IN
    [raised |-> "none", ret |-> JsonDumps(result),
     store |-> [store EXCEPT ![session_id] =
                   [_scored |-> TRUE, _score_result |-> result]],
     computed |-> TRUE]

\* Lines 29-82: the Assessment is computed, cached in the quiz and returned.
ComputedResult(store, session_id, quiz, user_answers) ==
    LET result == Assessment(session_id, quiz, user_answers) IN
    [raised |-> "none", ret |-> JsonDumps(result),
     store |-> [store EXCEPT ![session_id] = MarkScored(quiz, result)],
     computed |-> TRUE]

\* Mutant of score_quiz: the answers are decoded first, before the session is
\* looked up.
score_quiz_parse_first(store, session_id, answers) ==
    IF ~JsonDecodes(answers) THEN FailedScore(store, session_id, "JSONDecodeError")
    ELSE IF session_id \notin DOMAIN store THEN UnknownSession(store, session_id)
    ELSE LET quiz == store[session_id] IN
         IF IsCached(quiz) THEN CachedResult(store, quiz)
         ELSE IF TallyRaises(Get(quiz, "questions", <<>>), answers)
         THEN FailedScore(store, session_id,
                          IF answers.kind # "object" THEN "AttributeError" ELSE "KeyError")
         ELSE ComputedResult(store, session_id, quiz, ParseAnswers(answers))

\* score_quiz(session_id, answers) on store: what it raises ("none" when it
\* returns), the text it returns, the store it leaves, and whether it computed
\* an Assessment (lines 11-82).
score_quiz(store, session_id, answers) ==
    IF session_id \notin DOMAIN store THEN UnknownSession(store, session_id)
    ELSE LET quiz == store[session_id] IN
         IF IsCached(quiz) THEN CachedResult(store, quiz)
         ELSE IF ~JsonDecodes(answers) THEN FailedScore(store, session_id, "JSONDecodeError")
         ELSE IF TallyRaises(Get(quiz, "questions", <<>>), answers)
         THEN FailedScore(store, session_id,
                          IF answers.kind # "object" THEN "AttributeError" ELSE "KeyError")
         ELSE ComputedResult(store, session_id, quiz, ParseAnswers(answers))

\* ------------------------------------------------------------- generate_quiz

\* Lines 83-85: for q in questions: if "correct_answer" in q:
\*                  q["correct"] = q.pop("correct_answer")
Normalize(q) ==
    IF "correct_answer" \in DOMAIN q
    THEN With(Without(q, "correct_answer"), "correct", q["correct_answer"])
    ELSE q

\* Mutant of Sanitize: the key is filtered under its name before line 85.
SanitizeWrongKey(q) == Without(q, "correct_answer")

\* Line 91: {k: v for k, v in q.items() if k != "correct"}
Sanitize(q) == Without(q, "correct")

\* Lines 79-87: the dict stored under the new session id.
StoredQuiz(result) ==
    IF "questions" \in DOMAIN result
    THEN [result EXCEPT !["questions"] = [i \in 1..Len(@) |-> Normalize(@[i])]]
    ELSE result

\* Mutant of StoreQuiz: the store is rebound to a dict holding the new quiz alone.
StoreQuizAlone(store, session_id, stored) == [s \in {session_id} |-> stored]

\* Line 87: quiz_store[session_id] = result.
StoreQuiz(store, session_id, stored) == With(store, session_id, stored)

\* Lines 93-98: the dict returned to the caller.
QuizView(session_id, stored) ==
    LET questions == Get(stored, "questions", <<>>) IN
    [session_id |-> session_id,
     title |-> Get(stored, "title", "Quiz"),
     topics |-> Get(stored, "topics", <<>>),
     questions |-> [i \in 1..Len(questions) |-> Sanitize(questions[i])]]

\* generate_quiz on store, with response the outcome of the external call
\* ("failed": the call raised; else the text it returned) and session_id the
\* uuid4 drawn at line 80 (lines 38-98).
generate_quiz(store, session_id, response) ==
    IF response.kind = "failed"
    THEN [raised |-> "APIError", ret |-> NoReturn, store |-> store]
    ELSE IF ~JsonDecodes(response)
    THEN [raised |-> "JSONDecodeError", ret |-> NoReturn, store |-> store]
    ELSE IF response.kind # "object"
    THEN [raised |-> "AttributeError", ret |-> NoReturn, store |-> store]
    ELSE LET stored == StoredQuiz(JsonLoads(response)) IN
         [raised |-> "none",
          ret |-> JsonDumps(QuizView(session_id, stored)),
          store |-> StoreQuiz(store, session_id, stored)]

\* ---------------------------------------------------------- organize_content

\* int(x * 100) for the float x = num/den: the product truncated (for the
\* totals of a quiz the double product truncates to the same integer).
IntTimes100(x) == (100 * x.num) \div x.den

\* Lines 33 and 74: the status derived from progress.
StatusOf(progress) ==
    IF progress >= 100 THEN "completed"
    ELSE IF progress > 0 THEN "in_progress" ELSE "not_started"

\* Lines 22-24: progress from the assessment text ("" when none is given; an
\* assessment without overall_knowledge counts as 0).
Progress(assessment_json) ==
    IF assessment_json.kind = "none" THEN 0
    ELSE IntTimes100(Get(JsonLoads(assessment_json), "overall_knowledge", Zero))

\* Mutant of SetProgress: the values the external call proposed are kept, and
\* the derived ones fill in only where it proposed none (setdefault).
SetProgressDefault(content_node, progress) ==
    [k \in DOMAIN content_node \cup {"progressPercent", "status"} |->
        IF k \in DOMAIN content_node THEN content_node[k]
        ELSE IF k = "status" THEN StatusOf(progress) ELSE progress]

\* Lines 72-74: progressPercent and status written into the content node.
SetProgress(content_node, progress) ==
    With(With(content_node, "progressPercent", progress), "status", StatusOf(progress))

\* Lines 66-74: the node is result["content_node"] when nested, else result.
Organized(result, progress) ==
    IF "content_node" \in DOMAIN result
    THEN [result EXCEPT !["content_node"] = SetProgress(@, progress)]
    ELSE SetProgress(result, progress)

\* organize_content with response the outcome of the external call (lines 16-77).
organize_content(assessment_json, response) ==
    IF response.kind = "failed"
    THEN [raised |-> "APIError", ret |-> NoReturn]
    ELSE IF ~JsonDecodes(response)
    THEN [raised |-> "JSONDecodeError", ret |-> NoReturn]
    ELSE IF response.kind # "object"
    THEN [raised |-> "TypeError", ret |-> NoReturn]
    ELSE [raised |-> "none",
          ret |-> JsonDumps(Organized(JsonLoads(response), Progress(assessment_json)))]

\* --------------------------------------------------------- summarize_content

\* prompts/summarizer.py lines 13-69: the keys of AUDIENCE_TEMPLATES.
AUDIENCE_TEMPLATES == {"engineering", "business", "self"}

\* Line 23: AUDIENCE_TEMPLATES.get(audience, AUDIENCE_TEMPLATES["self"]).
AudienceTemplate(audience) == IF audience \in AUDIENCE_TEMPLATES THEN audience ELSE "self"

\* Lines 26-33: the gap-focus fragment ("" without an Assessment).
GapFocus(assessment_json) ==
    IF assessment_json.kind = "none" \/ JsonLoads(assessment_json) = <<>>
    THEN [kind |-> "empty"]
    ELSE [kind |-> "gaps",
          focus_areas |-> Get(JsonLoads(assessment_json), "focus_areas", <<>>),
          skip_areas |-> Get(JsonLoads(assessment_json), "skip_areas", <<>>)]

\* Lines 36-43: what the prompt is built from.
SummarizePrompt(audience, assessment_json) ==
    [audience |-> audience,
     audience_template |-> AudienceTemplate(audience),
     gap_focus |-> GapFocus(assessment_json)]

\* summarize_content with response the outcome of the external call; the text
\* of the response is returned undecoded (lines 16-62).
summarize_content(audience, assessment_json, response) ==
    IF assessment_json.kind \notin {"none", "object"}
    THEN [raised |-> IF JsonDecodes(assessment_json) THEN "AttributeError" ELSE "JSONDecodeError",
          ret |-> NoReturn, prompt |-> NoReturn]
    ELSE IF response.kind = "failed"
    THEN [raised |-> "APIError", ret |-> NoReturn,
          prompt |-> SummarizePrompt(audience, assessment_json)]
    ELSE [raised |-> "none", ret |-> response,
          prompt |-> SummarizePrompt(audience, assessment_json)]

\* ------------------------------------------------------------------- agents

\* Mutant of DecodesFinal: an absent final text is not told from a decoded one.
DecodesFinalOrAbsent(final) == final.kind # "malformed"

\* triage_pipeline.py lines 78-82 (assess_agent.py 54-58, summarize_agent.py
\* 56-60): "if final_response:" and json.loads succeeding on it.
DecodesFinal(final) == final.kind # "none" /\ JsonDecodes(final)

\* Mutant of OrganizerInput: the Organizer is called without the Assessment.
OrganizerInputNone(sc) == NoReturn

\* triage_pipeline.py line 86: the assessment_json the Organizer is given,
\* json.dumps of the decoded text score_quiz returned.
OrganizerInput(sc) == JsonDumps(JsonLoads(sc.ret))

\* run_triage (triage_pipeline.py lines 49-87) once the agent run has ended
\* with final: "raised" (the runner raised), "none" (no final text), a
\* malformed text, or a JSON text.  A decoded final text is returned as it is;
\* otherwise score_quiz and then organize_content are called directly.
\* scored and organized are the outcomes of the two direct calls.
run_triage(store, request, final, org_response) ==
    IF final.kind = "raised"
    THEN [raised |-> "APIError", ret |-> NoReturn, store |-> store,
          scored |-> NoReturn, organized |-> NoReturn]
    ELSE IF DecodesFinal(final)
    THEN [raised |-> "none", ret |-> final, store |-> store,
          scored |-> NoReturn, organized |-> NoReturn]
    ELSE LET sc == score_quiz(store, request.session_id, JsonDumps(request.answers)) IN
         IF sc.raised # "none"
         THEN [raised |-> sc.raised, ret |-> NoReturn, store |-> sc.store,
               scored |-> sc, organized |-> NoReturn]
         ELSE LET org == organize_content(OrganizerInput(sc), org_response) IN
              IF org.raised # "none"
              THEN [raised |-> org.raised, ret |-> NoReturn, store |-> sc.store,
                    scored |-> sc, organized |-> org]
              ELSE [raised |-> "none",
                    ret |-> JsonDumps([assessment |-> JsonLoads(sc.ret),
                                       organization |-> JsonLoads(org.ret)]),
                    store |-> sc.store, scored |-> sc, organized |-> org]

\* run_assess (assess_agent.py lines 32-62), likewise; the fallback calls
\* generate_quiz directly.
run_assess(store, final, session_id, response) ==
    IF final.kind = "raised"
    THEN [raised |-> "APIError", ret |-> NoReturn, store |-> store, fallback |-> FALSE]
    ELSE IF DecodesFinal(final)
    THEN [raised |-> "none", ret |-> final, store |-> store, fallback |-> FALSE]
    ELSE LET g == generate_quiz(store, session_id, response) IN
         [raised |-> g.raised, ret |-> g.ret, store |-> g.store, fallback |-> TRUE]

\* run_summarize (summarize_agent.py lines 33-64), likewise; the fallback
\* calls summarize_content(content, content_type, audience) and decodes the
\* text it returns (line 64).  tool is the outcome of the direct call.
run_summarize(request, final, response) ==
    IF final.kind = "raised"
    THEN [raised |-> "APIError", ret |-> NoReturn, tool |-> NoReturn]
    ELSE IF DecodesFinal(final)
    THEN [raised |-> "none", ret |-> final, tool |-> NoReturn]
    ELSE LET t == summarize_content(request.audience, NoReturn, response) IN
         IF t.raised # "none"
         THEN [raised |-> t.raised, ret |-> NoReturn, tool |-> t]
         ELSE IF ~JsonDecodes(t.ret)
         THEN [raised |-> "JSONDecodeError", ret |-> NoReturn, tool |-> t]
         ELSE [raised |-> "none", ret |-> t.ret, tool |-> t]

\* --------------------------------------------------------------------- main

\* The body of an error response (the detail string is not modelled).
NoBody == [detail |-> "error"]

\* The exceptions among those the model raises that are ValueErrors
\* (json.JSONDecodeError and pydantic's ValidationError subclass ValueError).
IsValueError(exc) == exc \in {"JSONDecodeError", "ValidationError"}

\* main.py lines 247-251: the except clauses around the whole handler body.
\* An HTTPException raised inside the try block is an Exception too.
TriageStatus(exc) == IF IsValueError(exc) THEN 404 ELSE 500

\* Mutant of AssessStatus: the clauses of submit_assessment_answers.
AssessStatusAsTriage(exc) == IF IsValueError(exc) THEN 404 ELSE 500

\* main.py lines 146-148: the one except clause of assess_content.
AssessStatus(exc) == 500

\* main.py lines 285-287: the one except clause of summarize_content.
SummarizeStatus(exc) == 500

\* Mutant of UnconfiguredStatus: the credential is checked inside the try
\* block, whose except clause turns the 503 into a 500.
UnconfiguredInsideTry(route) == 500

\* main.py lines 121-122, 161-162, 261-262: HTTPException(503), raised before
\* the try block of the handler.
UnconfiguredStatus(route) == 503

\* main.py lines 136-144: the fields a QuizQuestion is built from.
QuizQuestion(q) ==
    [id |-> q["id"], topic |-> Get(q, "topic", "General"),
     question |-> q["question"], options |-> Get(q, "options", <<>>)]

\* assess_content (main.py lines 124-148) on the value run_assess produced.
assess_content(out) ==
    IF out.raised # "none"
    THEN [status |-> AssessStatus(out.raised), cause |-> out.raised, body |-> NoBody]
    ELSE IF out.ret.kind # "object"
    THEN [status |-> AssessStatus("AttributeError"), cause |-> "AttributeError", body |-> NoBody]
    ELSE LET result == JsonLoads(out.ret)
             questions == Get(result, "questions", <<>>) IN
         IF \E i \in 1..Len(questions) : {"id", "question"} \ DOMAIN questions[i] # {}
         THEN [status |-> AssessStatus("KeyError"), cause |-> "KeyError", body |-> NoBody]
         ELSE [status |-> 200, cause |-> "none",
               body |-> [session_id |-> Get(result, "session_id", ""),
                         status |-> "awaiting_answers",
                         content_title |-> Get(result, "title", "Untitled"),
                         topics |-> Get(result, "topics", <<>>),
                         questions |-> [i \in 1..Len(questions) |-> QuizQuestion(questions[i])]]]

\* responses.py lines 21-28: the values of ProgressStatus.
ProgressStatus == {"not_started", "in_progress", "completed", "on_hold", "archived"}

\* main.py line 224: min(100, max(0, progressPercent)).
Clamp(p) == IF p < 0 THEN 0 ELSE IF p > 100 THEN 100 ELSE p

\* main.py lines 206-228: the content node of the response.
ContentNode(org_data) ==
    LET node_data == Get(org_data, "content_node", org_data)
        status == Get(node_data, "status", "not_started") IN
    [title |-> Get(node_data, "title", "Untitled"),
     status |-> IF status \in ProgressStatus THEN status ELSE "not_started",
     progressPercent |-> Clamp(Get(node_data, "progressPercent", 0))]

\* submit_assessment_answers (main.py lines 164-251) on the value run_triage
\* produced: line 179 raises HTTPException(400) inside the try block, and the
\* clause of line 249 catches it.
submit_assessment_answers(request, out) ==
    IF out.raised # "none"
    THEN [status |-> TriageStatus(out.raised), cause |-> out.raised, body |-> NoBody]
    ELSE IF out.ret.kind # "object"
    THEN [status |-> TriageStatus("AttributeError"), cause |-> "AttributeError", body |-> NoBody]
    ELSE LET result == JsonLoads(out.ret)
             assessment_data == Get(result, "assessment", <<>>)
             org_data == Get(result, "organization", <<>>) IN
         IF "error" \in DOMAIN assessment_data
         THEN [status |-> TriageStatus("HTTPException"), cause |-> "HTTPException", body |-> NoBody]
         ELSE [status |-> 200, cause |-> "none",
               body |-> [assessment |->
                             [session_id |-> Get(assessment_data, "session_id", request.session_id),
                              overall_knowledge |-> Get(assessment_data, "overall_knowledge", Zero),
                              topics_assessed |-> Get(assessment_data, "topics_assessed", <<>>),
                              focus_areas |-> Get(assessment_data, "focus_areas", <<>>),
                              skip_areas |-> Get(assessment_data, "skip_areas", <<>>)],
                         organization |-> ContentNode(org_data)]]

\* str.lower() on the audience values of the model.
Lower(audience) == IF audience = "Engineering" THEN "engineering" ELSE audience

\* main.py lines 271-272: the Audience reported in the response.
AudienceEnum(audience) ==
    IF Lower(audience) \in {"engineering", "business", "self"} THEN Lower(audience) ELSE "self"

\* summarize_content of main.py (lines 264-287) on the value run_summarize
\* produced (the results of the model carry a str under "summary" and a list
\* under "key_takeaways", as SummaryContent requires).
post_summarize(request, out) ==
    IF out.raised # "none"
    THEN [status |-> SummarizeStatus(out.raised), cause |-> out.raised, body |-> NoBody]
    ELSE IF out.ret.kind # "object"
    THEN [status |-> SummarizeStatus("AttributeError"), cause |-> "AttributeError", body |-> NoBody]
    ELSE LET result == JsonLoads(out.ret) IN
         [status |-> 200, cause |-> "none",
          body |-> [content_title |-> Get(result, "title", "Untitled"),
                    summary |-> [audience |-> AudienceEnum(request.audience),
                                 content |-> Get(result, "summary", ""),
                                 key_takeaways |-> Get(result, "key_takeaways", <<>>),
                                 code_examples |->
                                     IF request.audience = "engineering"
                                     THEN Get(result, "code_examples", None)
                                     ELSE None]]]

\* ------------------------------------------------------- inputs (bounded)

\* The identifiers uuid4 may draw, and a client may submit.
SessionOrder == <<"s1", "s2">>

SessionIds == {SessionOrder[i] : i \in 1..Len(SessionOrder)}

EmptyDict == [x \in {} |-> x]

Options == [A |-> "a", B |-> "b", C |-> "c", D |-> "d"]

\* Questions as the external call may return them: the answer key under
\* "correct_answer", with "topic", the key or "id" possibly missing.
Q1 == [id |-> "q1", topic |-> "A", question |-> "?", options |-> Options, correct_answer |-> "A"]
Q2 == [id |-> "q2", topic |-> "B", question |-> "?", options |-> Options, correct_answer |-> "B"]
Q2NoTopic == [id |-> "q2", question |-> "?", options |-> Options, correct_answer |-> "B"]
Q1NoKey == [id |-> "q1", topic |-> "A", question |-> "?", options |-> Options]
QNoId == [topic |-> "A", question |-> "?", options |-> Options, correct_answer |-> "A"]

\* The quizzes the external call of generate_quiz may return.
LLMQuizzes ==
    { [title |-> "T", topics |-> <<"A", "B">>, questions |-> <<Q1, Q2>>],
      [title |-> "U", topics |-> <<"A">>, questions |-> <<Q1NoKey, Q2NoTopic>>],
      [title |-> "V", topics |-> <<"A">>, questions |-> <<QNoId>>] }

\* Outcomes of an external call: it raises, or returns a text.
Failed == [kind |-> "failed"]

\* The external call is not made (the handler does not reach it).
NotCalled == [kind |-> "notcalled"]

QuizResponses == {Failed, Malformed, JsonArray} \cup {JsonDumps(q) : q \in LLMQuizzes}

\* The answers a client submits to POST /assess/answers (dict[str, str]).
AnswerDicts == {[q1 |-> "A", q2 |-> "B"], [q2 |-> "A"]}

\* The answers argument an agent may pass to the score_quiz tool (a str).
AnswerTexts == {Malformed, JsonArray} \cup {JsonDumps(a) : a \in AnswerDicts}

\* What the external call of organize_content may return.
OrgNode == [title |-> "N", medium |-> "article", progressPercent |-> 50, status |-> "completed"]

\* A classification that proposes neither progressPercent nor status.
OrgBare == [title |-> "N", medium |-> "article"]

OrgResponses ==
    {Failed, Malformed, JsonArray, JsonDumps(OrgNode), JsonDumps(OrgBare),
     JsonDumps([content_node |-> OrgNode, ai_suggestion |-> [confidence |-> 1]])}

\* How an agent run ends: the runner raises, or yields no text, a text that is
\* not JSON, or a JSON text of the agent's own making.
AgentRaised == [kind |-> "raised"]

TriageFinals ==
    {AgentRaised, NoReturn, Malformed, JsonArray, JsonDumps(EmptyDict),
     JsonDumps([assessment |-> [error |-> "Quiz session not found"],
                organization |-> OrgNode])}

AssessFinals ==
    {AgentRaised, NoReturn, Malformed, JsonArray, JsonDumps(EmptyDict)}
    \cup {JsonDumps([session_id |-> s, title |-> "T", questions |-> <<Q1, Q2>>]) : s \in SessionIds}

\* A final text that json.loads accepts is returned; the runner's exception
\* propagates; anything else falls through to the direct tool calls.
FallsBack(final) == final.kind \in {"none", "malformed"}

\* How POST /assess/answers may end: the agent's final text, and the outcome
\* of organize_content's external call where the fallback reaches it.
TriageEnds ==
    {[final |-> f, response |-> NotCalled] : f \in {f \in TriageFinals : ~FallsBack(f)}}
    \cup {[final |-> NoReturn, response |-> r] : r \in OrgResponses}
    \cup {[final |-> Malformed, response |-> JsonDumps(OrgNode)]}

\* How POST /assess may end: the agent's final text, and for the fallback the
\* uuid4 drawn and the outcome of generate_quiz's external call.
AssessEnds ==
    {[final |-> f, session_id |-> "", response |-> NotCalled] :
        f \in {f \in AssessFinals : ~FallsBack(f)}}
    \cup {[final |-> NoReturn, session_id |-> s, response |-> r] :
            s \in SessionIds, r \in QuizResponses}
    \cup {[final |-> Malformed, session_id |-> s, response |-> JsonDumps(q)] :
            s \in SessionIds, q \in LLMQuizzes}

\* What the external call of summarize_content may return.
SummaryResult == [title |-> "N", summary |-> "text", key_takeaways |-> <<"k">>]

SummaryResponses == {Failed, Malformed, JsonArray, JsonDumps(SummaryResult)}

\* The audience values a client may submit (SummarizeRequest.audience is a str).
Audiences == {"engineering", "self", "Engineering", "kids"}

SummarizeFinals == {AgentRaised, NoReturn, Malformed, JsonArray, JsonDumps(SummaryResult)}

\* How POST /summarize may end: the agent's final text, and the outcome of
\* summarize_content's external call where the fallback reaches it.
SummarizeEnds ==
    {[final |-> f, response |-> NotCalled] : f \in {f \in SummarizeFinals : ~FallsBack(f)}}
    \cup {[final |-> NoReturn, response |-> r] : r \in SummaryResponses}
    \cup {[final |-> Malformed, response |-> JsonDumps(SummaryResult)]}

\* Two clients may have POST /assess in flight together.
AssessRequests == {[route |-> "assess", content |-> c] : c \in {"x", "y"}}

\* The optional assessment of a SummarizeRequest: none, or the Assessment of
\* a quiz with topic A answered right and topic B not.
RequestAssessments ==
    {NoReturn,
     JsonDumps(Assessment("s1", StoredQuiz([title |-> "T", questions |-> <<Q1, Q2>>]),
                          [q1 |-> "A"]))}

SummarizeRequests ==
    {[route |-> "summarize", audience |-> a, assessment |-> x] :
        a \in Audiences, x \in RequestAssessments}

TriageRequests ==
    {[route |-> "answers", session_id |-> s, answers |-> a] : s \in SessionIds, a \in AnswerDicts}

\* ------------------------------------------------------------------- state

NoCall == [op |-> "none"]

NoHttp == [route |-> "none"]

\* History: first[s] is the first Assessment score_quiz returned for session
\* s, with the request whose run made the call;
\* writes[s] counts the times a result was cached for s (up to 2).
NoFirst == [kind |-> "none"]

Init ==
    /\ quiz_store = EmptyDict
    /\ inflight = {}
    /\ call = NoCall
    /\ http = NoHttp
    /\ configured \in BOOLEAN
    /\ first = [s \in SessionIds |-> NoFirst]
    /\ writes = [s \in SessionIds |-> 0]

\* The observation of a score_quiz call and its effect on the history.
ScoreCall(request, session_id, answers, out) ==
    [op |-> "score_quiz", by |-> request, session_id |-> session_id, answers |-> answers,
     known |-> session_id \in DOMAIN quiz_store,
     scored_before |-> first[session_id] # NoFirst,
     raised |-> out.raised, ret |-> out.ret, computed |-> out.computed]

Scored(request, session_id, out) ==
    /\ first' = IF out.raised = "none" /\ "error" \notin DOMAIN JsonLoads(out.ret)
                   /\ first[session_id] = NoFirst
                THEN [first EXCEPT ![session_id] =
                         [kind |-> "first", ret |-> out.ret, by |-> request]]
                ELSE first
    /\ writes' = IF out.computed /\ writes[session_id] < 2
                 THEN [writes EXCEPT ![session_id] = @ + 1] ELSE writes

\* main.py lines 121, 161, 261: without the credential every endpoint answers
\* 503 before its try block is entered.
RejectUnconfigured(route) ==
    /\ ~configured
    /\ http' = [route |-> route, status |-> UnconfiguredStatus(route),
                cause |-> "unconfigured", upstream |-> "none"]
    /\ call' = NoCall
    /\ UNCHANGED <<quiz_store, inflight, configured, first, writes>>

\* POST /assess, POST /assess/answers or POST /summarize enters run_assess /
\* run_triage / run_summarize and awaits the agent runner.
StartRequest(request) ==
    /\ configured
    /\ request \notin inflight
    /\ Cardinality(inflight) < MaxInFlight
    /\ inflight' = inflight \cup {request}
    /\ call' = NoCall
    /\ http' = NoHttp
    /\ UNCHANGED <<quiz_store, configured, first, writes>>

\* generate_quiz.py line 80: uuid4 draws an identifier no session has; the
\* identifiers being opaque, the unused ones are drawn in a fixed order.
Uuid4(store, session_id) ==
    /\ session_id \notin DOMAIN store
    /\ \E i \in 1..Len(SessionOrder) :
          /\ SessionOrder[i] = session_id
          /\ \A j \in 1..(i - 1) : SessionOrder[j] \in DOMAIN store

\* The observation of a generate_quiz call.
GenerateCall(request, session_id, response, raised, ret) ==
    [op |-> "generate_quiz", by |-> request, session_id |-> session_id,
     response |-> response, raised |-> raised, ret |-> ret]

\* The observation of a summarize_content call.
SummarizeCall(request, audience, out) ==
    [op |-> "summarize_content", by |-> request, audience |-> audience,
     prompt |-> out.prompt, raised |-> out.raised, ret |-> out.ret]

\* The agent of a request in flight calls the generate_quiz tool.
AgentGenerate(request, session_id, response) ==
    /\ request \in inflight
    /\ request.route = "assess"
    /\ Uuid4(quiz_store, session_id)
    /\ LET out == generate_quiz(quiz_store, session_id, response) IN
        /\ quiz_store' = out.store
        /\ call' = GenerateCall(request, session_id, response, out.raised, out.ret)
    /\ http' = NoHttp
    /\ UNCHANGED <<inflight, configured, first, writes>>

\* The agent of a request in flight calls the score_quiz tool for the
\* request's session, with an answers text of its own writing (the request's
\* answers, or a text that is no JSON object).
AgentScore(request, answers) ==
    /\ request \in inflight
    /\ request.route = "answers"
    /\ answers \in {JsonDumps(request.answers), Malformed, JsonArray}
    /\ LET out == score_quiz(quiz_store, request.session_id, answers) IN
        /\ quiz_store' = out.store
        /\ call' = ScoreCall(request, request.session_id, answers, out)
        /\ Scored(request, request.session_id, out)
    /\ http' = NoHttp
    /\ UNCHANGED <<inflight, configured>>

\* The agent of a request in flight calls the summarize_content tool, with the
\* audience of the request as the message gives it or in lower case, and no
\* assessment (the message of summarize_agent.py line 43 carries none).
AgentSummarize(request, audience, response) ==
    /\ request \in inflight
    /\ request.route = "summarize"
    /\ audience \in {request.audience, Lower(request.audience)}
    /\ call' = SummarizeCall(request, audience, summarize_content(audience, NoReturn, response))
    /\ http' = NoHttp
    /\ UNCHANGED <<quiz_store, inflight, configured, first, writes>>

\* The exception an external call of the request's last step raised, or its
\* output raised on decoding ("none" when there is none): the runner's, or
\* that of the tool called directly.
Upstream(final, tool) ==
    IF final.kind = "raised" THEN "APIError"
    ELSE IF tool = NoReturn THEN "none"
    ELSE tool.raised

\* The agent run of POST /assess ends; run_assess returns or falls back, and
\* assess_content answers.
FinishAssess(request, final, session_id, response) ==
    /\ request \in inflight
    /\ request.route = "assess"
    /\ FallsBack(final) => Uuid4(quiz_store, session_id)
    /\ LET out == run_assess(quiz_store, final, session_id, response)
           answer == assess_content(out) IN
        /\ quiz_store' = out.store
        /\ call' = IF out.fallback
                   THEN GenerateCall(request, session_id, response, out.raised, out.ret)
                   ELSE NoCall
        /\ http' = [route |-> "assess", status |-> answer.status, cause |-> answer.cause,
                    body |-> answer.body, fallback |-> out.fallback, final |-> final,
                    upstream |-> Upstream(final, IF out.fallback THEN out ELSE NoReturn)]
    /\ inflight' = inflight \ {request}
    /\ UNCHANGED <<configured, first, writes>>

\* The agent run of POST /assess/answers ends; run_triage returns or falls
\* back, and submit_assessment_answers answers.
FinishTriage(request, final, org_response) ==
    /\ request \in inflight
    /\ request.route = "answers"
    /\ LET out == run_triage(quiz_store, request, final, org_response)
           answer == submit_assessment_answers(request, out) IN
        /\ quiz_store' = out.store
        /\ IF out.scored = NoReturn
           THEN call' = NoCall /\ UNCHANGED <<first, writes>>
           ELSE /\ call' = ScoreCall(request, request.session_id,
                                     JsonDumps(request.answers), out.scored)
                /\ Scored(request, request.session_id, out.scored)
        /\ http' = [route |-> "answers", session_id |-> request.session_id,
                    status |-> answer.status, cause |-> answer.cause, body |-> answer.body,
                    fallback |-> out.scored # NoReturn, final |-> final,
                    organized |-> out.organized # NoReturn,
                    upstream |-> Upstream(final, out.organized)]
    /\ inflight' = inflight \ {request}
    /\ UNCHANGED configured

\* The agent run of POST /summarize ends; run_summarize returns or falls back,
\* and the handler answers.
FinishSummarize(request, final, response) ==
    /\ request \in inflight
    /\ request.route = "summarize"
    /\ LET out == run_summarize(request, final, response)
           answer == post_summarize(request, out) IN
        /\ call' = IF out.tool = NoReturn THEN NoCall
                   ELSE SummarizeCall(request, request.audience, out.tool)
        /\ http' = [route |-> "summarize", audience |-> request.audience,
                    status |-> answer.status, cause |-> answer.cause, body |-> answer.body,
                    fallback |-> out.tool # NoReturn, final |-> final,
                    upstream |-> Upstream(final,
                                    IF out.tool = NoReturn THEN NoReturn
                                    ELSE [raised |-> out.raised])]
    /\ inflight' = inflight \ {request}
    /\ UNCHANGED <<quiz_store, configured, first, writes>>

\* The quiz endpoints, POST /assess and POST /assess/answers, with up to
\* MaxInFlight requests in flight.
Next ==
    \/ \E route \in {"assess", "answers"} : RejectUnconfigured(route)
    \/ \E request \in AssessRequests \cup TriageRequests : StartRequest(request)
    \/ \E request \in inflight, s \in SessionIds, response \in QuizResponses :
          AgentGenerate(request, s, response)
    \/ \E request \in inflight, answers \in AnswerTexts : AgentScore(request, answers)
    \/ \E request \in inflight, end \in AssessEnds :
          FinishAssess(request, end.final, end.session_id, end.response)
    \/ \E request \in inflight, end \in TriageEnds :
          FinishTriage(request, end.final, end.response)

Spec == Init /\ [][Next]_vars

\* ------------------------------------------- the three endpoints in turn

\* A request to any of the three endpoints enters its handler while no other
\* request is in flight.
StartAlone(request) ==
    /\ inflight = {}
    /\ StartRequest(request)

\* POST /assess, POST /assess/answers and POST /summarize, served one request
\* at a time.
NextEndpoints ==
    \/ \E route \in {"assess", "answers", "summarize"} : RejectUnconfigured(route)
    \/ \E request \in AssessRequests \cup TriageRequests \cup SummarizeRequests :
          StartAlone(request)
    \/ \E request \in inflight, s \in SessionIds, response \in QuizResponses :
          AgentGenerate(request, s, response)
    \/ \E request \in inflight, answers \in AnswerTexts : AgentScore(request, answers)
    \/ \E request \in inflight, audience \in Audiences, response \in SummaryResponses :
          AgentSummarize(request, audience, response)
    \/ \E request \in inflight, end \in AssessEnds :
          FinishAssess(request, end.final, end.session_id, end.response)
    \/ \E request \in inflight, end \in TriageEnds :
          FinishTriage(request, end.final, end.response)
    \/ \E request \in inflight, end \in SummarizeEnds :
          FinishSummarize(request, end.final, end.response)

SpecEndpoints == Init /\ [][NextEndpoints]_vars

\* ------------------------------------------- the scoring arithmetic alone

QuestionIds == <<"q1", "q2", "q3", "q4", "q5", "q6", "q7", "q8", "q9", "q10", "q11", "q12">>

\* A quiz of n questions as the external call returns it: the odd ones among
\* the first 2k under topic "A", the others without a topic, every answer key "A".
ScoreQuiz(n, k) ==
    [title |-> "T",
     questions |-> [i \in 1..n |->
        IF i % 2 = 1 /\ i < 2 * k
        THEN [id |-> QuestionIds[i], topic |-> "A", question |-> "?", correct_answer |-> "A"]
        ELSE [id |-> QuestionIds[i], question |-> "?", correct_answer |-> "A"]]]

\* Answers that pick "A" for the questions numbered in right and leave the
\* others out.
ScoreAnswers(right) == [q \in {QuestionIds[i] : i \in right} |-> "A"]

DirectCall == [route |-> "direct"]

InitScore ==
    /\ \E n \in 0..MaxQuestions : \E k \in 0..((n + 1) \div 2) :
          quiz_store = [s \in {"s1"} |-> StoredQuiz(ScoreQuiz(n, k))]
    /\ inflight = {}
    /\ call = NoCall
    /\ http = NoHttp
    /\ configured = TRUE
    /\ first = [s \in SessionIds |-> NoFirst]
    /\ writes = [s \in SessionIds |-> 0]

\* score_quiz applied to the stored, unscored quiz.
ApplyScore(answers) ==
    /\ ~IsCached(quiz_store["s1"])
    /\ LET out == score_quiz(quiz_store, "s1", JsonDumps(answers)) IN
        /\ quiz_store' = out.store
        /\ call' = ScoreCall(DirectCall, "s1", JsonDumps(answers), out)
        /\ Scored(DirectCall, "s1", out)
    /\ UNCHANGED <<inflight, http, configured>>

NextScore ==
    \E right \in SUBSET (1..Len(quiz_store["s1"]["questions"])) : ApplyScore(ScoreAnswers(right))

SpecScore == InitScore /\ [][NextScore]_vars

\* ------------------------------------------------- organize_content alone

\* The assessment_json argument: "" (no Assessment), or the Assessment
\* score_quiz computes for a quiz of n questions of which c are answered right.
OrgAssessments ==
    {NoReturn} \cup
    {JsonDumps(Assessment("s1", StoredQuiz(ScoreQuiz(nc[1], 0)), ScoreAnswers(1..nc[2]))) :
        nc \in {x \in (0..MaxQuestions) \X (0..MaxQuestions) : x[2] <= x[1]}}

InitOrganize ==
    /\ quiz_store = EmptyDict
    /\ inflight = {}
    /\ \E a \in OrgAssessments : call = [op |-> "input", assessment_json |-> a]
    /\ http = NoHttp
    /\ configured = TRUE
    /\ first = [s \in SessionIds |-> NoFirst]
    /\ writes = [s \in SessionIds |-> 0]

\* organize_content applied to the assessment, with the outcome of its
\* external call.
ApplyOrganize(response) ==
    /\ call.op = "input"
    /\ LET out == organize_content(call.assessment_json, response) IN
        call' = [op |-> "organize_content", assessment_json |-> call.assessment_json,
                 response |-> response, raised |-> out.raised, ret |-> out.ret]
    /\ UNCHANGED <<quiz_store, inflight, http, configured, first, writes>>

NextOrganize == \E response \in OrgResponses : ApplyOrganize(response)

SpecOrganize == InitOrganize /\ [][NextOrganize]_vars

\* ------------------------------------------------------------------ claims

\* The last score_quiz call, when it returned an Assessment.
ReturnedAssessment ==
    /\ call.op = "score_quiz"
    /\ call.raised = "none"
    /\ "error" \notin DOMAIN JsonLoads(call.ret)

\* The questions of the quiz stored under the session of the last call.
CallQuestions == Get(quiz_store[call.session_id], "questions", <<>>)

TopicOf(q) == IF "topic" \in DOMAIN q THEN q["topic"] ELSE "General"

\* The questions (by position) answered with their stored correct label.
RightlyAnswered(questions, user_answers) ==
    {i \in 1..Len(questions) :
        /\ "id" \in DOMAIN questions[i]
        /\ "correct" \in DOMAIN questions[i]
        /\ questions[i]["id"] \in DOMAIN user_answers
        /\ user_answers[questions[i]["id"]] = questions[i]["correct"]}

InTopic(questions, topic) == {i \in 1..Len(questions) : TopicOf(questions[i]) = topic}

\* C1: once score_quiz has returned an Assessment for a session, every later
\* call for that session, whatever answers it is given, returns the very text
\* the first call returned and computes nothing.
C1_RescoreReturnsFirstAssessment ==
    (call.op = "score_quiz" /\ call.scored_before) =>
        /\ call.raised = "none"
        /\ ~call.computed
        /\ call.ret = first[call.session_id].ret

\* A later call whose answers differ from the first ones and would, if scored,
\* give another Assessment.
C1_Witness ==
    /\ call.op = "score_quiz"
    /\ call.scored_before
    /\ call.answers.kind = "object"
    /\ Assessment(call.session_id, quiz_store[call.session_id], JsonLoads(call.answers))
          # JsonLoads(first[call.session_id].ret)

\* C2: POST /assess/answers for a session id that is not in the quiz store
\* answers with a client error (4xx), not the 500 of a server fault, once the
\* triage result carries the scorer's session-not-found error (main.py line
\* 179), whichever of the orchestration and the fallback produced it.
C2_UnknownSessionClientError ==
    (/\ http.route = "answers"
     /\ http.cause = "HTTPException"
     /\ http.session_id \notin DOMAIN quiz_store)
        => http.status \in 400..499

\* C3: of the score_quiz calls made for one session by overlapping requests,
\* one computes and caches the Assessment; a call made by another request
\* finds the session scored and returns the cached text; the result is cached
\* once.
C3_OneComputationPerSession ==
    /\ \A s \in SessionIds : writes[s] <= 1
    /\ \A s \in DOMAIN quiz_store : Get(quiz_store[s], "_scored", FALSE) <=> writes[s] = 1
    /\ (ReturnedAssessment /\ call.by # first[call.session_id].by) =>
          /\ ~call.computed
          /\ call.scored_before
          /\ call.ret = first[call.session_id].ret

\* Two requests with different answers for one session are in flight together;
\* the first has scored the session and the second has got the cached text.
C3_Witness ==
    /\ ReturnedAssessment
    /\ call.scored_before
    /\ call.by # first[call.session_id].by
    /\ call.by.answers # first[call.session_id].by.answers
    /\ {call.by, first[call.session_id].by} \subseteq inflight

\* C4: a score_quiz call for a session id that is not in the store returns the
\* error value, raises nothing, and leaves the store as it was.
C4_UnknownSessionLeavesStore ==
    [][(call'.op = "score_quiz" /\ ~call'.known) =>
          /\ call'.raised = "none"
          /\ "error" \in DOMAIN JsonLoads(call'.ret)
          /\ ~call'.computed
          /\ quiz_store' = quiz_store]_vars

\* score_quiz was called for an unknown session while the store held another.
C4_Witness ==
    /\ call.op = "score_quiz"
    /\ ~call.known
    /\ DOMAIN quiz_store # {}
    /\ call.session_id \notin DOMAIN quiz_store

\* C5: scoring a stored quiz (every question with an id) with an answers
\* mapping raises nothing, and counts as correct only questions whose id is in
\* the answers with the stored correct label: in particular not a question
\* stored without a correct answer.
C5_MissingAnswerIncorrect ==
    (/\ call.op = "score_quiz"
     /\ call.known
     /\ ~call.scored_before
     /\ call.answers.kind = "object"
     /\ \A i \in 1..Len(CallQuestions) : "id" \in DOMAIN CallQuestions[i])
        => /\ call.raised = "none"
           /\ \A i \in 1..Len(JsonLoads(call.ret).topics_assessed) :
                 LET t == JsonLoads(call.ret).topics_assessed[i] IN
                 t.questions_correct <=
                    Cardinality(InTopic(CallQuestions, t.topic)
                                \cap RightlyAnswered(CallQuestions, JsonLoads(call.answers)))

\* C6: the Assessment computed for a quiz of N questions over T distinct topics
\* (no topic counting as "General") has T entries in topics_assessed, one per
\* topic, whose questions_total sum to N.
C6_TopicsPartitionQuestions ==
    (ReturnedAssessment /\ call.computed) =>
        LET topics_assessed == JsonLoads(call.ret).topics_assessed
            topics == {TopicOf(CallQuestions[i]) : i \in 1..Len(CallQuestions)} IN
        /\ Len(topics_assessed) = Cardinality(topics)
        /\ {topics_assessed[i].topic : i \in 1..Len(topics_assessed)} = topics
        /\ \A i \in 1..Len(topics_assessed) :
              topics_assessed[i].questions_total =
                 Cardinality(InTopic(CallQuestions, topics_assessed[i].topic))
        /\ SumField(topics_assessed, Len(topics_assessed), "questions_total")
              = Len(CallQuestions)

\* A quiz of at least three questions over two topics, the questions of one
\* topic apart from each other, has been scored.
C6_Witness ==
    /\ ReturnedAssessment
    /\ call.computed
    /\ Len(CallQuestions) >= 3
    /\ Len(JsonLoads(call.ret).topics_assessed) = 2
    /\ TopicOf(CallQuestions[1]) = TopicOf(CallQuestions[3])
    /\ TopicOf(CallQuestions[1]) # TopicOf(CallQuestions[2])

\* C7: in a computed Assessment each topic's score is (questions of the topic
\* answered with the stored correct label) / (questions of the topic), and
\* overall_knowledge is the same ratio over the whole quiz, 0 for no questions.
C7_ScoresAreRatios ==
    (ReturnedAssessment /\ call.computed /\ call.answers.kind = "object") =>
        LET result == JsonLoads(call.ret)
            right == RightlyAnswered(CallQuestions, JsonLoads(call.answers)) IN
        /\ \A i \in 1..Len(result.topics_assessed) :
              LET t == result.topics_assessed[i] IN
              t.score = Div(Cardinality(InTopic(CallQuestions, t.topic) \cap right),
                            Cardinality(InTopic(CallQuestions, t.topic)))
        /\ result.overall_knowledge =
              IF Len(CallQuestions) = 0 THEN Zero
              ELSE Div(Cardinality(right), Len(CallQuestions))

\* C8: a topic scoring exactly 0.7 is proficient and in skip_areas, not in
\* focus_areas; a topic is in focus_areas exactly when its score is below 0.7.
C8_ThresholdInclusive ==
    (ReturnedAssessment /\ call.computed) =>
        LET result == JsonLoads(call.ret)
            focus == {result.focus_areas[i] : i \in 1..Len(result.focus_areas)}
            skip == {result.skip_areas[i] : i \in 1..Len(result.skip_areas)} IN
        \A i \in 1..Len(result.topics_assessed) :
            LET t == result.topics_assessed[i] IN
            /\ (10 * t.questions_correct = 7 * t.questions_total) =>
                  /\ t.status = "proficient"
                  /\ t.topic \in skip
                  /\ t.topic \notin focus
            /\ t.topic \in focus <=> 10 * t.questions_correct < 7 * t.questions_total
            /\ t.score = Div(t.questions_correct, t.questions_total)

\* A topic with 7 correct answers of 10 has been assessed.
C8_Witness ==
    /\ ReturnedAssessment
    /\ call.computed
    /\ \E i \in 1..Len(JsonLoads(call.ret).topics_assessed) :
          /\ JsonLoads(call.ret).topics_assessed[i].questions_correct = 7
          /\ JsonLoads(call.ret).topics_assessed[i].questions_total = 10

\* The answer key of a question as the external call returned it: line 85
\* overwrites "correct" with "correct_answer" when both are there.
KeyOf(q) == IF "correct_answer" \in DOMAIN q THEN q["correct_answer"] ELSE q["correct"]

HasKey(q) == {"correct_answer", "correct"} \cap DOMAIN q # {}

\* C9: the value generate_quiz returns, and the POST /assess response, hold no
\* "correct" or "correct_answer" field in any question, while the quiz stored
\* under the returned session id keeps every answer key the external call gave.
C9_AnswersNeverReturned ==
    /\ (call.op = "generate_quiz" /\ call.raised = "none") =>
          LET view == JsonLoads(call.ret)
              given == Get(JsonLoads(call.response), "questions", <<>>)
              stored == Get(quiz_store[view.session_id], "questions", <<>>) IN
          /\ view.session_id = call.session_id
          /\ Len(view.questions) = Len(given)
          /\ \A i \in 1..Len(view.questions) :
                {"correct", "correct_answer"} \cap DOMAIN view.questions[i] = {}
          /\ Len(stored) = Len(given)
          /\ \A i \in 1..Len(given) :
                HasKey(given[i]) =>
                   "correct" \in DOMAIN stored[i] /\ stored[i]["correct"] = KeyOf(given[i])
    /\ (http.route = "assess" /\ http.status = 200) =>
          \A i \in 1..Len(http.body.questions) :
             {"correct", "correct_answer"} \cap DOMAIN http.body.questions[i] = {}

\* POST /assess has answered from the fallback with a quiz whose questions
\* have answer keys.
C9_Witness ==
    /\ call.op = "generate_quiz"
    /\ call.raised = "none"
    /\ http.route = "assess"
    /\ http.status = 200
    /\ Len(http.body.questions) > 0
    /\ \A i \in 1..Len(JsonLoads(call.response).questions) :
          HasKey(JsonLoads(call.response).questions[i])

\* C10: in every state of the store a session whose scored flag is set has a
\* cached Assessment, also after a scoring attempt that raised.
C10_ScoredImpliesCached ==
    \A s \in DOMAIN quiz_store :
        Get(quiz_store[s], "_scored", FALSE) => "_score_result" \in DOMAIN quiz_store[s]

\* A scoring attempt on a stored session has raised.
C10_Witness ==
    /\ call.op = "score_quiz"
    /\ call.known
    /\ call.raised # "none"
    /\ ~Get(quiz_store[call.session_id], "_scored", FALSE)

\* The last organize_content call, when it returned.
OrganizeReturned == call.op = "organize_content" /\ call.raised = "none"

\* The content node of the text organize_content returned.
ReturnedNode ==
    LET result == JsonLoads(call.ret) IN
    IF "content_node" \in DOMAIN result THEN result["content_node"] ELSE result

\* The overall_knowledge of the Assessment organize_content was given.
GivenOverall == JsonLoads(call.assessment_json).overall_knowledge

\* round(x * 100) for x = num/den: the nearest integer, a tie going to the
\* even one.
RoundTimes100(x) ==
    LET q == (100 * x.num) \div x.den
        r == (100 * x.num) % x.den IN
    IF 2 * r > x.den THEN q + 1
    ELSE IF 2 * r < x.den THEN q
    ELSE IF q % 2 = 0 THEN q ELSE q + 1

\* C11: given an Assessment with overall_knowledge = c/n, organize_content
\* sets progressPercent to round(overall_knowledge * 100), the nearest integer
\* (2 of 3 gives 67).
C11_ProgressIsRounded ==
    (OrganizeReturned /\ call.assessment_json.kind = "object") =>
        ReturnedNode["progressPercent"] = RoundTimes100(GivenOverall)

\* C12: whatever the external call proposes, the returned content node has
\* progressPercent taken from the Assessment (0 when there is none, 100 for an
\* overall_knowledge of 1) and status completed for progress >= 100,
\* in_progress for 0 < progress < 100, not_started otherwise.
C12_StatusFollowsProgress ==
    OrganizeReturned =>
        LET node == ReturnedNode
            progress == IF call.assessment_json.kind = "none" THEN 0
                        ELSE (100 * GivenOverall.num) \div GivenOverall.den IN
        /\ node["progressPercent"] = progress
        /\ progress >= 100 => node["status"] = "completed"
        /\ (0 < progress /\ progress < 100) => node["status"] = "in_progress"
        /\ progress <= 0 => node["status"] = "not_started"
        /\ call.assessment_json.kind = "none" =>
              node["progressPercent"] = 0 /\ node["status"] = "not_started"
        /\ (call.assessment_json.kind = "object" /\ GivenOverall = Div(1, 1)) =>
              node["progressPercent"] = 100 /\ node["status"] = "completed"

\* The external call proposed completed at 50 percent, nested under
\* content_node, for an Assessment of 2 right answers of 3.
C12_Witness ==
    /\ OrganizeReturned
    /\ call.assessment_json.kind = "object"
    /\ GivenOverall = Div(2, 3)
    /\ "content_node" \in DOMAIN JsonLoads(call.response)
    /\ JsonLoads(call.response)["content_node"]["status"] = "completed"
    /\ ReturnedNode["status"] = "in_progress"

\* The scored flag of a stored quiz.
ScoredFlag(quiz) == Get(quiz, "_scored", FALSE)

\* C13: a session in the store stays in the store, a session whose scored flag
\* is set keeps it set, and a session enters the store unscored, in every step
\* of every operation.
C13_LifecycleForward ==
    [][\A s \in SessionIds :
          /\ s \in DOMAIN quiz_store =>
                /\ s \in DOMAIN quiz_store'
                /\ ScoredFlag(quiz_store[s]) => ScoredFlag(quiz_store'[s])
          /\ (s \notin DOMAIN quiz_store /\ s \in DOMAIN quiz_store') =>
                ~ScoredFlag(quiz_store'[s])]_vars

\* A scored session has been scored again while another session is stored
\* and unscored.
C13_Witness ==
    /\ call.op = "score_quiz"
    /\ call.scored_before
    /\ ScoredFlag(quiz_store[call.session_id])
    /\ \E s \in DOMAIN quiz_store : ~ScoredFlag(quiz_store[s])

\* C14: a generate_quiz call that returns has stored its quiz under an id that
\* was no key of the store, added that one session, unscored, and left every
\* other session as it was, also with another POST /assess in flight.
C14_GenerateAddsOneSession ==
    [][(call'.op = "generate_quiz" /\ call'.raised = "none") =>
          LET session_id == call'.session_id IN
          /\ session_id \notin DOMAIN quiz_store
          /\ DOMAIN quiz_store' = DOMAIN quiz_store \cup {session_id}
          /\ ~ScoredFlag(quiz_store'[session_id])
          /\ "_score_result" \notin DOMAIN quiz_store'[session_id]
          /\ \A s \in DOMAIN quiz_store : quiz_store'[s] = quiz_store[s]]_vars

\* Two POST /assess requests are in flight, each has had generate_quiz called,
\* and the session stored first has been scored meanwhile.
C14_Witness ==
    /\ call.op = "generate_quiz"
    /\ call.raised = "none"
    /\ AssessRequests \subseteq inflight
    /\ \E s \in DOMAIN quiz_store : s # call.session_id /\ ScoredFlag(quiz_store[s])

\* C15: a generate_quiz call whose external call fails, or returns a text that
\* cannot be decoded, raises and leaves the store as it was; when it is the
\* direct call of run_assess, POST /assess answers 500.
C15_GenerateFailurePropagates ==
    [][(call'.op = "generate_quiz" /\ call'.response.kind \in {"failed", "malformed"}) =>
          /\ call'.raised # "none"
          /\ quiz_store' = quiz_store
          /\ http'.route = "assess" => http'.status = 500]_vars

\* POST /assess has answered 500 after the external call returned an
\* undecodable text, with a session in the store.
C15_Witness ==
    /\ call.op = "generate_quiz"
    /\ call.response = Malformed
    /\ http.route = "assess"
    /\ http.status = 500
    /\ DOMAIN quiz_store # {}

\* C16: without the credential every endpoint answers 503 and nothing else
\* happens: no request enters a handler body, no tool is called, the store
\* stays empty.
C16_UnconfiguredIs503 ==
    ~configured =>
        /\ DOMAIN quiz_store = {}
        /\ inflight = {}
        /\ call = NoCall
        /\ http # NoHttp => (http.cause = "unconfigured" /\ http.status = 503)

\* POST /summarize has been answered 503.
C16_Witness ==
    /\ ~configured
    /\ http.route = "summarize"
    /\ http.status = 503

\* C17: a request in which an external call failed, or returned a text that
\* cannot be decoded, is answered with a 5xx status.
C17_UpstreamErrorIsServerError ==
    (/\ http.route \in {"assess", "answers", "summarize"}
     /\ http.upstream \in {"APIError", "JSONDecodeError"})
        => http.status \in 500..599

\* The tool each endpoint's fallback calls first.
FallbackTool(route) ==
    IF route = "assess" THEN "generate_quiz"
    ELSE IF route = "answers" THEN "score_quiz" ELSE "summarize_content"

\* C18: run_assess, run_triage and run_summarize call their tools directly
\* exactly when the agent's final text is absent or is not JSON (for triage
\* score_quiz, and organize_content once score_quiz has returned); with a
\* final text that is JSON no tool is called directly.
C18_FallbackOnUndecodableFinal ==
    (http.route \in {"assess", "answers", "summarize"} /\ http.cause # "unconfigured") =>
        /\ http.fallback <=> http.final.kind \in {"none", "malformed"}
        /\ http.fallback =>
              /\ call.op = FallbackTool(http.route)
              /\ http.route = "answers" => (http.organized <=> call.raised = "none")
        /\ ~http.fallback => call = NoCall

\* POST /assess/answers has answered 200 from the direct calls after a final
\* text that was not JSON.
C18_Witness ==
    /\ http.route = "answers"
    /\ http.status = 200
    /\ http.final = Malformed
    /\ http.fallback
    /\ http.organized

\* C19: on the direct path of POST /summarize an audience other than
\* engineering, business and self gets the self template and is reported as
\* self, and the template used is always that of the audience reported.
C19_UnrecognizedAudienceIsSelf ==
    (http.route = "summarize" /\ http.status = 200 /\ http.fallback) =>
        /\ http.audience \notin {"engineering", "business", "self"} =>
              /\ call.prompt.audience_template = "self"
              /\ http.body.summary.audience = "self"
        /\ call.prompt.audience_template = http.body.summary.audience

\* What generate_quiz stored: the quiz without the two keys score_quiz adds.
QuizContent(quiz) == Without(Without(quiz, "_scored"), "_score_result")

\* C20: in every step the title and questions of every stored quiz stay as
\* they are, and a stored quiz changes at all only in a step where score_quiz
\* computes the Assessment of that very session; the steps of
\* organize_content and summarize_content change nothing.
C20_QuizContentFrozen ==
    [][/\ \A s \in DOMAIN quiz_store :
             /\ s \in DOMAIN quiz_store'
             /\ QuizContent(quiz_store'[s]) = QuizContent(quiz_store[s])
             /\ quiz_store'[s] # quiz_store[s] =>
                   /\ call'.op = "score_quiz"
                   /\ call'.session_id = s
                   /\ call'.computed
       /\ call'.op = "summarize_content" => quiz_store' = quiz_store]_vars

\* POST /assess/answers has scored one of two stored sessions and organized
\* the content.
C20_Witness ==
    /\ call.op = "score_quiz"
    /\ call.computed
    /\ http.route = "answers"
    /\ http.organized
    /\ Cardinality(DOMAIN quiz_store) = 2

\* C21: a POST /assess answered 200 from the direct call of generate_quiz
\* returns a session_id that is a key of the store, with the questions stored
\* under it, and the request has added that one session: the session its
\* agent's own generate_quiz call stored in the step before is not a second.
C21_AssessLeavesOneSession ==
    [][(http'.route = "assess" /\ http'.status = 200 /\ http'.fallback) =>
          LET session_id == http'.body.session_id IN
          /\ session_id \in DOMAIN quiz_store'
          /\ LET stored == Get(quiz_store'[session_id], "questions", <<>>) IN
                http'.body.questions = [i \in 1..Len(stored) |-> QuizQuestion(Sanitize(stored[i]))]
          /\ DOMAIN quiz_store' \ DOMAIN quiz_store = {session_id}
          /\ ~(/\ call.op = "generate_quiz"
               /\ call.by = call'.by
               /\ call.raised = "none"
               /\ call.session_id \in DOMAIN quiz_store')]_vars

\* C22: on the direct path of run_triage the Organizer is called after the
\* Scorer has returned, with the Scorer's output: in a 200 response the
\* organization's progressPercent and status are those derived from the
\* assessment's overall_knowledge, and whenever the Organizer was called for a
\* stored session, it was called with that session scored, which it stays also
\* when the Organizer's external call fails.
C22_OrganizerFollowsScorer ==
    (http.route = "answers" /\ http.cause # "unconfigured" /\ http.fallback) =>
        /\ http.organized =>
              /\ call.op = "score_quiz"
              /\ call.raised = "none"
              /\ call.known => ScoredFlag(quiz_store[call.session_id])
        /\ http.status = 200 =>
              LET overall == http.body.assessment.overall_knowledge
                  progress == (100 * overall.num) \div overall.den IN
              /\ http.organized
              /\ http.body.assessment = [k \in DOMAIN http.body.assessment |->
                                            JsonLoads(call.ret)[k]]
              /\ http.body.organization.progressPercent = progress
              /\ http.body.organization.status =
                    IF progress >= 100 THEN "completed"
                    ELSE IF progress > 0 THEN "in_progress" ELSE "not_started"

\* The Organizer's external call has failed after the Scorer computed the
\* Assessment of a stored session.
C22_Witness ==
    /\ http.route = "answers"
    /\ http.cause # "unconfigured"
    /\ http.fallback
    /\ http.organized
    /\ http.upstream = "APIError"
    /\ call.computed
    /\ ScoredFlag(quiz_store[call.session_id])

\* C23: the prompt the direct call of summarize_content builds for a POST
\* /summarize request that carries an assessment holds the gap-focus fragment
\* with that assessment's focus and skip topics; without an assessment the
\* fragment is empty.
C23_GapFocusFromRequest ==
    (/\ http.route = "summarize"
     /\ http.cause # "unconfigured"
     /\ http.fallback
     /\ call.prompt # NoReturn) =>
        call.prompt.gap_focus =
            IF call.by.assessment.kind = "object"
            THEN [kind |-> "gaps",
                  focus_areas |-> JsonLoads(call.by.assessment).focus_areas,
                  skip_areas |-> JsonLoads(call.by.assessment).skip_areas]
            ELSE [kind |-> "empty"]

\* C24: score_quiz given answers that do not decode returns the not-found
\* error for an unknown session and the cached Assessment for a scored one,
\* without raising; it raises only for a stored, unscored session, which then
\* stays unscored.
C24_ChecksBeforeParsing ==
    (call.op = "score_quiz" /\ call.answers.kind = "malformed") =>
        /\ ~call.known =>
              /\ call.raised = "none"
              /\ "error" \in DOMAIN JsonLoads(call.ret)
        /\ call.scored_before =>
              /\ call.raised = "none"
              /\ call.ret = first[call.session_id].ret
        /\ (call.known /\ ~call.scored_before) =>
              /\ call.raised = "JSONDecodeError"
              /\ ~ScoredFlag(quiz_store[call.session_id])
              /\ "_score_result" \notin DOMAIN quiz_store[call.session_id]

\* A scored session has been scored again with answers that do not decode.
C24_Witness ==
    /\ call.op = "score_quiz"
    /\ call.answers.kind = "malformed"
    /\ call.scored_before
    /\ call.raised = "none"

\* C25: in a computed Assessment focus_areas and skip_areas share no topic and
\* hold each assessed topic once between them, skip_areas the proficient ones
\* and focus_areas those needing review; every score and overall_knowledge
\* lies in [0, 1] and questions_correct <= questions_total.
C25_AssessmentWellFormed ==
    (ReturnedAssessment /\ call.computed) =>
        LET result == JsonLoads(call.ret)
            focus == result.focus_areas
            skip == result.skip_areas
            InUnit(x) == 0 <= x.num /\ x.num <= x.den /\ x.den > 0 IN
        /\ \A i \in 1..Len(focus), j \in 1..Len(skip) : focus[i] # skip[j]
        /\ Len(focus) + Len(skip) = Len(result.topics_assessed)
        /\ \A i \in 1..Len(result.topics_assessed) :
              LET t == result.topics_assessed[i] IN
              /\ t.status \in {"proficient", "needs_review"}
              /\ (\E j \in 1..Len(skip) : skip[j] = t.topic) <=> t.status = "proficient"
              /\ (\E j \in 1..Len(focus) : focus[j] = t.topic) <=> t.status = "needs_review"
              /\ InUnit(t.score)
              /\ 0 <= t.questions_correct
              /\ t.questions_correct <= t.questions_total
        /\ InUnit(result.overall_knowledge)

\* An Assessment with a proficient topic at 3 of 4 and a topic needing review
\* has been computed.
C25_Witness ==
    /\ ReturnedAssessment
    /\ call.computed
    /\ Len(JsonLoads(call.ret).focus_areas) = 1
    /\ Len(JsonLoads(call.ret).skip_areas) = 1
    /\ \E i \in 1..Len(JsonLoads(call.ret).topics_assessed) :
          /\ JsonLoads(call.ret).topics_assessed[i].score = Div(3, 4)
          /\ JsonLoads(call.ret).topics_assessed[i].status = "proficient"

\* C26: the value score_quiz returns for an unknown session id is the one it
\* returns on an empty store: it does not depend on the sessions the store
\* holds, and names none of them.
C26_NotFoundIndependentOfStore ==
    (call.op = "score_quiz" /\ ~call.known) =>
        call.ret = score_quiz(EmptyDict, call.session_id, call.answers).ret

====
